---- MODULE Spec2Model ----
(***************************************************************************)
(* A model of ECFRService (frontend/src/app/services/ecfr.service.ts) and  *)
(* of the handlers of AgencyVisualizationComponent that drive it.          *)
(*                                                                         *)
(* Agency objects are heap nodes: a node is identified by a number (its    *)
(* slug), its immutable fields are read from `forest`, and its mutable     *)
(* `children` field is the heap variable `children`.  Text is a sequence   *)
(* of one-character strings so that toLowerCase() and includes() are       *)
(* computed rather than assumed.                                           *)
(***************************************************************************)
EXTENDS Integers, Sequences, FiniteSets, TLC

VARIABLES
    forest,                 \* the agency forest the HTTP data source serves
    agenciesLoad,           \* loadAgencies(): "pending" | "done"
    agencies,               \* signal agencies: sequence of root nodes
    children,               \* heap: node -> current value of its children field
    searchQuery,            \* signal searchQuery
    filteredDirty,          \* computed filteredAgencies must be re-evaluated
    filteredValue,          \* computed filteredAgencies: last value produced
    selectedAgency,         \* signal selectedAgency: node or Null
    selectedTitle,          \* signal selectedTitle: title or Null
    titleData,              \* signal titleData
    selectedAgencyHistory,  \* signal selectedAgencyHistory
    selectedAgencyChanges,  \* signal selectedAgencyChanges
    calls,                  \* one record per selectAgency() call, in call order
    refreshes               \* one record per selectTitle() call, in call order

searchVars == <<searchQuery, filteredDirty, filteredValue>>
treeVars   == <<forest, agenciesLoad, agencies, children>>
selVars    == <<selectedAgency, selectedTitle>>
dataVars   == <<titleData, selectedAgencyHistory, selectedAgencyChanges>>
taskVars   == <<calls, refreshes>>
vars       == <<treeVars, searchVars, selVars, dataVars, taskVars>>

\* null, as the value of selectedAgency and selectedTitle: no node, no title.
Null == 0

\* An optional value (a response body, what a promise resolves to): None for
\* null or undefined, Some(x) for x.
None == <<>>
Some(x) == <<x>>

-----------------------------------------------------------------------------
(* Bounds of the model *)

MaxQueryLen == 2        \* longest search query typed
MaxCalls == 2           \* selectAgency() and selectTitle() calls in one behaviour

-----------------------------------------------------------------------------
(* Text *)

\* Characters a query is typed from.  Agency names also use "a"; a typed "a"
\* and a typed "A" are the same query once lower-cased.
Alphabet == {"A", "4", "0", " "}

DigitChars == <<"0", "1", "2", "3", "4", "5", "6", "7", "8", "9">>

toLowerCaseChar(c) == IF c = "A" THEN "a" ELSE c

toLowerCase(s) == [i \in 1..Len(s) |-> toLowerCaseChar(s[i])]

includes(s, q) ==
    \E i \in 0..(Len(s) - Len(q)) : SubSeq(s, i + 1, i + Len(q)) = q

RECURSIVE toString(_)
toString(n) ==
    IF n < 10 THEN <<DigitChars[n + 1]>>
    ELSE Append(toString(n \div 10), DigitChars[(n % 10) + 1])

RECURSIVE TextsUpTo(_)
TextsUpTo(k) ==
    IF k = 0 THEN {<<>>}
    ELSE LET shorter == TextsUpTo(k - 1)
         IN shorter \cup {Append(s, c) : s \in shorter, c \in Alphabet}

Queries == TextsUpTo(MaxQueryLen)

-----------------------------------------------------------------------------
(* Agency Tree Model *)

Nodes == DOMAIN forest.label

display_name(a)   == forest.label[a].display_name
name(a)           == forest.label[a].name
cfr_references(a) == forest.label[a].cfr_references
slug(a)           == a

Range(seq) == {seq[i] : i \in 1..Len(seq)}

RECURSIVE DescendantsOf(_, _)
DescendantsOf(heap, n) ==
    UNION { {c} \cup DescendantsOf(heap, c) : c \in Range(heap[n]) }

\* Every node of the forest made of `list` and the children fields in `heap`.
NodesOf(heap, list) ==
    UNION { {r} \cup DescendantsOf(heap, r) : r \in Range(list) }

\* Forests used to exercise the search filter: two roots, a chain
\* root -> parent -> two grandchildren; the nodes of the chain are labelled
\* independently, the second root is a plain agency without references.
PlainLabel ==
    [display_name |-> <<"A", "a">>, name |-> <<"0">>, cfr_references |-> <<>>]

SearchLabels ==
    { PlainLabel,
      [display_name |-> <<>>, name |-> <<"a", " ", "4">>, cfr_references |-> <<>>],
      [display_name |-> <<"A">>, name |-> <<"A">>, cfr_references |-> <<4, 40>>] }

SearchShape == <<(<<2>>), (<<3, 4>>), (<<>>), (<<>>), (<<>>)>>

SearchForests ==
    { [roots |-> <<1, 5>>, children |-> SearchShape, label |-> l] :
        l \in {f \in [DOMAIN SearchShape -> SearchLabels] : f[5] = PlainLabel} }

Referencing(titles) ==
    [display_name |-> <<"A">>, name |-> <<"A">>, cfr_references |-> titles]

\* Forest used to exercise selection: agency 1 references titles 1, 1, 2 and
\* has the child agency 2, which references title 3; agency 3 references
\* nothing.
SelectionForest ==
    [roots    |-> <<1, 3>>,
     children |-> <<(<<2>>), (<<>>), (<<>>)>>,
     label    |-> <<Referencing(<<1, 1>>), Referencing(<<2>>),
                    Referencing(<<>>)>>]

\* Forest used to exercise the refresh of one title and the derived values
\* of the selection: agency 1 references titles 40, 40, 42 and agency 2
\* titles 42, 40.
DataForest ==
    [roots    |-> <<1, 2>>,
     children |-> <<(<<>>), (<<>>)>>,
     label    |-> <<Referencing(<<40, 40, 42>>), Referencing(<<42, 40>>)>>]

\* Forest used to exercise one bulk load: agency 1 references titles
\* 1, 1, 2, 3, 4, 5, 6; agency 2 references nothing; agency 3 title 7 twice.
BulkForest ==
    [roots    |-> <<1, 2, 3>>,
     children |-> <<(<<>>), (<<>>), (<<>>)>>,
     label    |-> <<Referencing(<<1, 1, 2, 3, 4, 5, 6>>), Referencing(<<>>),
                    Referencing(<<7, 7>>)>>]

-----------------------------------------------------------------------------
(* Hierarchical search filter: ECFRService.searchAgencies *)

nameMatch(a, query) ==
    LET shown == IF display_name(a) # <<>> THEN display_name(a) ELSE name(a)
    IN  includes(toLowerCase(shown), query)

\* Mutant of titleMatch: every reference must match.
titleMatchEvery(a, query) ==
    \A i \in 1..Len(cfr_references(a)) :
        includes(toString(cfr_references(a)[i]), query)

titleMatch(a, query) ==
    \E i \in 1..Len(cfr_references(a)) :
        includes(toString(cfr_references(a)[i]), query)

\* Mutants of prunedChildren.

prunedChildrenKeepAll(original, matchingChildren) == original

prunedChildrenInverted(original, matchingChildren) ==
    SelectSeq(original,
              LAMBDA c : \A i \in 1..Len(matchingChildren) : matchingChildren[i] # c)

\* The value line 97 stores into agency.children, `original` being the value
\* the field had.
prunedChildren(original, matchingChildren) == matchingChildren

\* searchAgencies(list, query) on heap `heap`: the filtered array and the heap
\* as the filter callback leaves it (line 97 assigns agency.children).
RECURSIVE searchAgencies(_, _, _)
searchAgencies(heap, list, query) ==
    IF list = <<>> THEN [res |-> <<>>, heap |-> heap]
    ELSE
        LET agency == Head(list)
            first ==
                IF nameMatch(agency, query) \/ titleMatch(agency, query)
                THEN [keep |-> TRUE, heap |-> heap]
                ELSE LET sub == searchAgencies(heap, heap[agency], query)
                     IN  IF Len(sub.res) > 0
                         THEN [keep |-> TRUE,
                               heap |-> [sub.heap EXCEPT
                                           ![agency] =
                                             prunedChildren(heap[agency], sub.res)]]
                         ELSE [keep |-> FALSE, heap |-> sub.heap]
            rest == searchAgencies(first.heap, Tail(list), query)
        IN  [res  |-> IF first.keep THEN <<agency>> \o rest.res ELSE rest.res,
             heap |-> rest.heap]

\* The body of computed filteredAgencies.
filteredAgencies(heap, list, rawQuery) ==
    LET query == toLowerCase(rawQuery)
    IN  IF query = <<>> THEN [res |-> list, heap |-> heap]
        ELSE searchAgencies(heap, list, query)

-----------------------------------------------------------------------------
(* Initial state: the service has been constructed, loadAgencies() is in    *)
(* flight, every signal holds its initial value.                            *)

InitWith(forests) ==
    /\ forest \in forests
    /\ agenciesLoad = "pending"
    /\ agencies = <<>>
    /\ children = [n \in Nodes |-> <<>>]
    /\ searchQuery = <<>>
    /\ filteredDirty = TRUE
    /\ filteredValue = <<>>
    /\ selectedAgency = Null
    /\ selectedTitle = Null
    /\ titleData = <<>>
    /\ selectedAgencyHistory = <<>>
    /\ selectedAgencyChanges = <<>>
    /\ calls = <<>>
    /\ refreshes = <<>>

\* loadAgencies(): the response arrives and is stored.
LoadAgenciesOk ==
    /\ agenciesLoad = "pending"
    /\ agenciesLoad' = "done"
    /\ agencies' = forest.roots
    /\ children' = forest.children
    /\ filteredDirty' = TRUE
    /\ UNCHANGED <<forest, searchQuery, filteredValue, selVars, dataVars, taskVars>>

\* loadAgencies(): the request fails; the catch block stores [].
LoadAgenciesFail ==
    /\ agenciesLoad = "pending"
    /\ agenciesLoad' = "done"
    /\ agencies' = <<>>
    /\ filteredDirty' = TRUE
    /\ UNCHANGED <<forest, children, searchQuery, filteredValue, selVars,
                   dataVars, taskVars>>

\* updateSearch(query): a signal notifies its dependents only when the value
\* changes.
UpdateSearch(query) ==
    /\ searchQuery' = query
    /\ filteredDirty' = (filteredDirty \/ query # searchQuery)
    /\ UNCHANGED <<treeVars, filteredValue, selVars, dataVars, taskVars>>

\* A read of filteredAgencies() (the template reads it on every render): the
\* computed re-evaluates when a dependency changed, else returns its memo.
ReadFilteredAgencies ==
    /\ filteredDirty
    /\ LET out == filteredAgencies(children, agencies, searchQuery)
       IN  /\ filteredValue' = out.res
           /\ children' = out.heap
    /\ filteredDirty' = FALSE
    /\ UNCHANGED <<forest, agenciesLoad, agencies, searchQuery, selVars,
                   dataVars, taskVars>>

InitSearch == InitWith(SearchForests)

NextSearch ==
    \/ LoadAgenciesOk
    \/ LoadAgenciesFail
    \/ \E query \in Queries : UpdateSearch(query)
    \/ ReadFilteredAgencies

SpecSearch == InitSearch /\ [][NextSearch]_vars

-----------------------------------------------------------------------------
(* The HTTP data source *)

\* GET /api/historical-word-counts?agency={slug}: the data served for a slug.
HistoryOf(a) == <<[date |-> "2024-01-01", wordCount |-> 100 + slug(a)]>>

\* GET /api/agency/{slug}/changes: the data served for a slug.
ChangesOf(a) ==
    <<[date |-> "2024-01-01", title_count |-> slug(a), titles |-> <<>>,
       difference |-> 1]>>

\* GET /api/title/{title}/word-count: the bodies the source may answer with;
\* word_count 0 stands for a missing or zero word_count, date "" for no date.
WordCountResponses ==
    { [word_count |-> 0, date |-> ""],
      [word_count |-> 1, date |-> "2024-01-01"],
      [word_count |-> 2, date |-> ""] }

\* new Date().toISOString()
Now == "now"

-----------------------------------------------------------------------------
(* Batched fetch orchestrator: ECFRService.loadTitleData *)

batchSize == 5

Contains(seq, x) == \E i \in 1..Len(seq) : seq[i] = x

\* Mutant of uniqueTitlesOf: the titles are not deduplicated.
uniqueTitlesOfKeepAll(titles) == titles

\* Array.from(new Set(titles)): first occurrences, in order.
RECURSIVE uniqueTitlesOf(_)
uniqueTitlesOf(titles) ==
    IF titles = <<>> THEN <<>>
    ELSE LET front == uniqueTitlesOf(SubSeq(titles, 1, Len(titles) - 1))
             last  == titles[Len(titles)]
         IN  IF Contains(front, last) THEN front ELSE Append(front, last)

Min(x, y) == IF x < y THEN x ELSE y

\* Mutant of batchesOf: every title goes into one batch.
batchesOfSingle(unique) == IF unique = <<>> THEN <<>> ELSE <<unique>>

\* batches (lines 159-162).
batchesOf(unique) ==
    [k \in 1..((Len(unique) + batchSize - 1) \div batchSize) |->
        SubSeq(unique, (k - 1) * batchSize + 1, Min(k * batchSize, Len(unique)))]

\* Mutant of titleDataOf: a response without a word count is kept.
titleDataOfKeepZero(title, response) ==
    Some([title       |-> title,
          wordCount   |-> response.word_count,
          lastUpdated |-> IF response.date = "" THEN Now ELSE response.date])

\* What one promise of batchPromises resolves to (lines 174-185): None (null)
\* when the response carries no usable word count, else Some(TitleData).
titleDataOf(title, response) ==
    IF response.word_count = 0 THEN None
    ELSE Some([title       |-> title,
               wordCount   |-> response.word_count,
               lastUpdated |-> IF response.date = "" THEN Now
                               ELSE response.date])

\* The titles of a batch, all fetched at once (line 168).
startBatch(batch) == batch

\* Mutant of Flatten: one null result loses its whole batch.
FlattenAllOrNothing(seqs) ==
    IF \E k \in 1..Len(seqs) : seqs[k] = <<>> THEN <<>>
    ELSE [k \in 1..Len(seqs) |-> seqs[k][1]]

\* batchResults.filter(data => data !== null): the values of the non-null
\* results, in order.
RECURSIVE Flatten(_)
Flatten(seqs) == IF seqs = <<>> THEN <<>> ELSE Head(seqs) \o Flatten(Tail(seqs))

\* loadTitleData(agency) up to its first await: the state of the load, and
\* whether it stored [] at once (lines 148-151).
startTitleLoad(a) ==
    IF Len(cfr_references(a)) = 0
    THEN [state |-> "done", batches |-> <<>>, batch |-> 0, inFlight |-> {},
          results |-> <<>>, requested |-> <<>>, allTitleData |-> <<>>,
          answered |-> {}]
    ELSE LET batches == batchesOf(uniqueTitlesOf(cfr_references(a)))
         IN  [state |-> "running", batches |-> batches, batch |-> 1,
              inFlight |-> Range(startBatch(batches[1])),
              results |-> [j \in 1..Len(batches[1]) |-> None],
              requested |-> startBatch(batches[1]), allTitleData |-> <<>>,
              answered |-> {}]

\* The fetch of `title`, the j-th of the current batch, settles with `value`
\* (None or Some(td)); when it is the last of its batch, Promise.all resolves
\* and the loop goes on: the next batch starts, or the load ends (lines
\* 192-198).  inFlight holds the titles whose request has no answer yet,
\* requested every title requested so far, in order, answered the usable
\* responses the data source has delivered to the load.
settleTitleFetch(load, j, value) ==
    LET title    == load.batches[load.batch][j]
        results  == [load.results EXCEPT ![j] = value]
        inFlight == load.inFlight \ {title}
    IN  IF inFlight # {}
        THEN [load EXCEPT !.results = results, !.inFlight = inFlight]
        ELSE LET validResults == Flatten(results)
                 all == load.allTitleData \o validResults
             IN  IF load.batch < Len(load.batches)
                 THEN LET next == load.batches[load.batch + 1]
                      IN  [load EXCEPT
                             !.batch = load.batch + 1,
                             !.inFlight = inFlight \cup Range(startBatch(next)),
                             !.results = [k \in 1..Len(next) |-> None],
                             !.requested = load.requested \o startBatch(next),
                             !.allTitleData = all]
                 ELSE [load EXCEPT !.state = "done", !.inFlight = inFlight,
                                   !.results = <<>>, !.allTitleData = all]

-----------------------------------------------------------------------------
(* Selection state: selectAgency, selectTitle and the loads they start *)

\* Mutant of newCall: the changes load is never started.
newCallWithoutChanges(a) ==
    [agency |-> a, history |-> "pending", changes |-> "done",
     titles |-> startTitleLoad(a)]

\* The call record of selectAgency(a): its three loads, started together.
newCall(a) ==
    [agency |-> a, history |-> "pending", changes |-> "pending",
     titles |-> startTitleLoad(a)]

\* titleData after the synchronous part of loadTitleData(a).
titleDataAfterStart(a, current) ==
    IF Len(cfr_references(a)) = 0 THEN <<>> ELSE current

\* selectAgency(agency), lines 125-133, up to the await.
SelectAgency(a) ==
    /\ Len(calls) + Len(refreshes) < MaxCalls
    /\ selectedAgency' = a
    /\ selectedTitle' = Null
    /\ calls' = Append(calls, newCall(a))
    /\ titleData' = titleDataAfterStart(a, titleData)
    /\ UNCHANGED <<treeVars, searchVars, selectedAgencyHistory,
                   selectedAgencyChanges, refreshes>>

\* selectTitle(title), lines 136-140, up to the await.
SelectTitle(title) ==
    /\ Len(calls) + Len(refreshes) < MaxCalls
    /\ selectedTitle' = title
    /\ refreshes' = Append(refreshes, [title |-> title, state |-> "pending"])
    /\ UNCHANGED <<treeVars, searchVars, selectedAgency, dataVars, calls>>

\* AgencyVisualizationComponent.onTitleClick(event, agency, title):
\* selectAgency(agency) then selectTitle(title), in one handler.
OnTitleClick(a, title) ==
    /\ Len(calls) + Len(refreshes) + 1 < MaxCalls
    /\ selectedAgency' = a
    /\ selectedTitle' = title
    /\ calls' = Append(calls, newCall(a))
    /\ titleData' = titleDataAfterStart(a, titleData)
    /\ refreshes' = Append(refreshes, [title |-> title, state |-> "pending"])
    /\ UNCHANGED <<treeVars, searchVars, selectedAgencyHistory,
                   selectedAgencyChanges>>

\* Mutant of orEmpty: the response is dropped.
orEmptyAlways(data) == <<>>

\* data || []
orEmpty(data) == IF data = None THEN <<>> ELSE data[1]

\* loadAgencyHistory: the response arrives (Some(data), or None for no body).
LoadAgencyHistoryOk(i, data) ==
    /\ calls[i].history = "pending"
    /\ calls' = [calls EXCEPT ![i].history = "done"]
    /\ selectedAgencyHistory' = orEmpty(data)
    /\ UNCHANGED <<treeVars, searchVars, selVars, titleData,
                   selectedAgencyChanges, refreshes>>

\* loadAgencyHistory: the request fails.
LoadAgencyHistoryFail(i) ==
    /\ calls[i].history = "pending"
    /\ calls' = [calls EXCEPT ![i].history = "done"]
    /\ selectedAgencyHistory' = <<>>
    /\ UNCHANGED <<treeVars, searchVars, selVars, titleData,
                   selectedAgencyChanges, refreshes>>

\* loadAgencyChanges: the response arrives (Some(data), or None for no body).
LoadAgencyChangesOk(i, data) ==
    /\ calls[i].changes = "pending"
    /\ calls' = [calls EXCEPT ![i].changes = "done"]
    /\ selectedAgencyChanges' = orEmpty(data)
    /\ UNCHANGED <<treeVars, searchVars, selVars, titleData,
                   selectedAgencyHistory, refreshes>>

\* loadAgencyChanges: the request fails.
LoadAgencyChangesFail(i) ==
    /\ calls[i].changes = "pending"
    /\ calls' = [calls EXCEPT ![i].changes = "done"]
    /\ selectedAgencyChanges' = <<>>
    /\ UNCHANGED <<treeVars, searchVars, selVars, titleData,
                   selectedAgencyHistory, refreshes>>

\* The store of line 198, made when the load ends.
titleDataAfterSettle(load, current) ==
    IF load.state = "done" THEN load.allTitleData ELSE current

\* The load once it has returned: its locals are gone.
returned(load) ==
    IF load.state = "done" THEN [load EXCEPT !.allTitleData = <<>>] ELSE load

\* loadTitleData: fetch j of the current batch of call i settles with value;
\* `usable` holds the response body when the data source answered with a
\* non-zero word_count, and is recorded in the `answered` field of the load.
TitleFetchSettles(i, j, value, usable) ==
    /\ calls[i].titles.state = "running"
    /\ j \in 1..Len(calls[i].titles.batches[calls[i].titles.batch])
    /\ calls[i].titles.batches[calls[i].titles.batch][j] \in calls[i].titles.inFlight
    /\ LET load == settleTitleFetch(calls[i].titles, j, value)
           title == calls[i].titles.batches[calls[i].titles.batch][j]
           answered == calls[i].titles.answered
                       \cup {[title |-> title, response |-> r] : r \in usable}
       IN  /\ calls' = [calls EXCEPT
                          ![i].titles = [returned(load) EXCEPT !.answered = answered]]
           /\ titleData' = titleDataAfterSettle(load, titleData)
    /\ UNCHANGED <<treeVars, searchVars, selVars, selectedAgencyHistory,
                   selectedAgencyChanges, refreshes>>

\* loadTitleData: a word-count response arrives for a title of the batch.
LoadTitleDataResponse(i, j, response) ==
    TitleFetchSettles(i, j,
        titleDataOf(calls[i].titles.batches[calls[i].titles.batch][j], response),
        IF response.word_count # 0 THEN {response} ELSE {})

\* loadTitleData: a word-count request fails (inner catch, lines 186-189).
LoadTitleDataFail(i, j) == TitleFetchSettles(i, j, None, {})

\* Mutant of updatedTitleData: the title is not compared.
updatedTitleDataAll(current, title, response) ==
    [k \in 1..Len(current) |->
        [current[k] EXCEPT
           !.wordCount = response.word_count,
           !.lastUpdated = IF response.date = "" THEN Now ELSE response.date]]

\* The array loadTitleWordCount stores (lines 247-253).
updatedTitleData(current, title, response) ==
    [k \in 1..Len(current) |->
        IF current[k].title = title
        THEN [current[k] EXCEPT
                !.wordCount = response.word_count,
                !.lastUpdated = IF response.date = "" THEN Now ELSE response.date]
        ELSE current[k]]

\* loadTitleWordCount: the response arrives.
LoadTitleWordCountResponse(k, response) ==
    /\ refreshes[k].state = "pending"
    /\ refreshes' = [refreshes EXCEPT ![k].state = "done"]
    /\ titleData' = IF response.word_count = 0 THEN titleData
                    ELSE updatedTitleData(titleData, refreshes[k].title, response)
    /\ UNCHANGED <<treeVars, searchVars, selVars, selectedAgencyHistory,
                   selectedAgencyChanges, calls>>

\* loadTitleWordCount: the request fails (catch, lines 254-256).
LoadTitleWordCountFail(k) ==
    /\ refreshes[k].state = "pending"
    /\ refreshes' = [refreshes EXCEPT ![k].state = "done"]
    /\ UNCHANGED <<treeVars, searchVars, selVars, dataVars, calls>>

\* Mutant of sortAscending: the titles are left in reference order.
sortNothing(seq) == seq

\* .sort((a, b) => a - b)
sortAscending(seq) == SortSeq(seq, LAMBDA a, b : a - b < 0)

\* computed uniqueTitles (lines 63-69); cfr_references is never reassigned,
\* so the memoised value is this function of selectedAgency.
uniqueTitles ==
    IF selectedAgency = Null THEN <<>>
    ELSE sortAscending(uniqueTitlesOf(cfr_references(selectedAgency)))

\* computed selectedAgencyAnalytics (lines 52-61): None for null.
selectedAgencyAnalytics ==
    IF selectedAgency = Null THEN None
    ELSE Some([totalReferences |-> Len(cfr_references(selectedAgency)),
               uniqueTitles    |-> Cardinality(Range(cfr_references(selectedAgency))),
               childAgencies   |-> Len(children[selectedAgency])])

\* Titles some agency of the forest references.
AllTitles == UNION { Range(cfr_references(a)) : a \in Nodes }

\* Titles a batch can hold.
Slots == 1..batchSize

\* The service under any interleaving of selections and completions.
Init == InitWith({SelectionForest})

Next ==
    \/ LoadAgenciesOk
    \/ LoadAgenciesFail
    \/ \E a \in NodesOf(children, agencies) : SelectAgency(a)
    \/ \E title \in AllTitles : SelectTitle(title)
    \/ \E a \in NodesOf(children, agencies) :
          \E title \in Range(cfr_references(a)) : OnTitleClick(a, title)
    \/ \E i \in 1..Len(calls) : LoadAgencyHistoryOk(i, Some(HistoryOf(calls[i].agency)))
    \/ \E i \in 1..Len(calls) : LoadAgencyHistoryOk(i, None)
    \/ \E i \in 1..Len(calls) : LoadAgencyHistoryFail(i)
    \/ \E i \in 1..Len(calls) : LoadAgencyChangesOk(i, Some(ChangesOf(calls[i].agency)))
    \/ \E i \in 1..Len(calls) : LoadAgencyChangesOk(i, None)
    \/ \E i \in 1..Len(calls) : LoadAgencyChangesFail(i)
    \/ \E i \in 1..Len(calls) : \E j \in Slots :
          \E response \in WordCountResponses : LoadTitleDataResponse(i, j, response)
    \/ \E i \in 1..Len(calls) : \E j \in Slots : LoadTitleDataFail(i, j)
    \/ \E k \in 1..Len(refreshes) :
          \E response \in WordCountResponses : LoadTitleWordCountResponse(k, response)
    \/ \E k \in 1..Len(refreshes) : LoadTitleWordCountFail(k)

Spec == Init /\ [][Next]_vars

\* One agency selection on a fresh service, under every order and outcome of
\* the completions of its loads.
InitBulk == InitWith({BulkForest})

NextBulk ==
    \/ LoadAgenciesOk
    \/ LoadAgenciesFail
    \/ (calls = <<>> /\ \E a \in NodesOf(children, agencies) : SelectAgency(a))
    \/ \E i \in 1..Len(calls) : LoadAgencyHistoryOk(i, Some(HistoryOf(calls[i].agency)))
    \/ \E i \in 1..Len(calls) : LoadAgencyHistoryOk(i, None)
    \/ \E i \in 1..Len(calls) : LoadAgencyHistoryFail(i)
    \/ \E i \in 1..Len(calls) : LoadAgencyChangesOk(i, Some(ChangesOf(calls[i].agency)))
    \/ \E i \in 1..Len(calls) : LoadAgencyChangesOk(i, None)
    \/ \E i \in 1..Len(calls) : LoadAgencyChangesFail(i)
    \/ \E i \in 1..Len(calls) : \E j \in Slots :
          \E response \in WordCountResponses : LoadTitleDataResponse(i, j, response)
    \/ \E i \in 1..Len(calls) : \E j \in Slots : LoadTitleDataFail(i, j)

SpecBulk == InitBulk /\ [][NextBulk]_vars

\* One agency selection, by selectAgency or by a click on a title chip, and
\* title selections before, during and after its loads.
InitData == InitWith({DataForest})

NextData ==
    \/ LoadAgenciesOk
    \/ LoadAgenciesFail
    \/ (calls = <<>> /\ \E a \in NodesOf(children, agencies) : SelectAgency(a))
    \/ \E title \in AllTitles : SelectTitle(title)
    \/ (calls = <<>> /\ \E a \in NodesOf(children, agencies) :
          \E title \in Range(cfr_references(a)) : OnTitleClick(a, title))
    \/ \E i \in 1..Len(calls) : LoadAgencyHistoryOk(i, Some(HistoryOf(calls[i].agency)))
    \/ \E i \in 1..Len(calls) : LoadAgencyHistoryOk(i, None)
    \/ \E i \in 1..Len(calls) : LoadAgencyHistoryFail(i)
    \/ \E i \in 1..Len(calls) : LoadAgencyChangesOk(i, Some(ChangesOf(calls[i].agency)))
    \/ \E i \in 1..Len(calls) : LoadAgencyChangesOk(i, None)
    \/ \E i \in 1..Len(calls) : LoadAgencyChangesFail(i)
    \/ \E i \in 1..Len(calls) : \E j \in Slots :
          \E response \in WordCountResponses : LoadTitleDataResponse(i, j, response)
    \/ \E i \in 1..Len(calls) : \E j \in Slots : LoadTitleDataFail(i, j)
    \/ \E k \in 1..Len(refreshes) :
          \E response \in WordCountResponses : LoadTitleWordCountResponse(k, response)
    \/ \E k \in 1..Len(refreshes) : LoadTitleWordCountFail(k)

SpecData == InitData /\ [][NextData]_vars

-----------------------------------------------------------------------------
(* Vocabulary of the selection and fetch claims *)

CallSettled(call) ==
    /\ call.history = "done"
    /\ call.changes = "done"
    /\ call.titles.state = "done"

\* Every fetch started so far has settled.
AllSettled ==
    /\ \A i \in 1..Len(calls) : CallSettled(calls[i])
    /\ \A k \in 1..Len(refreshes) : refreshes[k].state = "done"

TitlesIn(data) == {data[k].title : k \in 1..Len(data)}

NoDuplicates(seq) ==
    \A m, n \in 1..Len(seq) : seq[m] = seq[n] => m = n

(* C1 *)

\* C1: stale responses are discarded: once every fetch has settled, titleData,
\* selectedAgencyHistory and selectedAgencyChanges hold only data fetched for
\* the currently selected agency.
C1_StaleResponsesDiscarded ==
    (selectedAgency # Null /\ AllSettled) =>
        /\ TitlesIn(titleData) \subseteq Range(cfr_references(selectedAgency))
        /\ selectedAgencyHistory \in {<<>>, HistoryOf(selectedAgency)}
        /\ selectedAgencyChanges \in {<<>>, ChangesOf(selectedAgency)}

(* C2 *)

\* C2: selectAgency(a) clears selectedTitle, titleData, selectedAgencyHistory
\* and selectedAgencyChanges: in the state the call leaves, before any response
\* for a is applied, selectedTitle is null and the three collections are empty.
C2_SelectAgencyClears ==
    [][ (Len(calls') > Len(calls) /\ refreshes' = refreshes) =>
          /\ selectedTitle' = Null
          /\ titleData' = <<>>
          /\ selectedAgencyHistory' = <<>>
          /\ selectedAgencyChanges' = <<>> ]_vars

(* C3 *)

\* C3: selectTitle(t) is a no-op unless the selected agency references t, so
\* selectedTitle is always null or a title the selected agency references.
C3_SelectedTitleReferenced ==
    \/ selectedTitle = Null
    \/ /\ selectedAgency # Null
       /\ selectedTitle \in Range(cfr_references(selectedAgency))

(* C9 *)

\* C9: a bulk title load requests each distinct title the agency references
\* exactly once: never a title twice, never a title the agency does not
\* reference, every referenced title by the time the load ends, and nothing
\* when the agency has no references.
C9_OneFetchPerDistinctTitle ==
    \A i \in 1..Len(calls) :
        LET load == calls[i].titles
            refs == cfr_references(calls[i].agency)
        IN  /\ NoDuplicates(load.requested)
            /\ Range(load.requested) \subseteq Range(refs)
            /\ load.state = "done" => Range(load.requested) = Range(refs)

\* C9 witness: the load for references 1, 1, 2, 3, 4, 5, 6 has ended after
\* exactly 6 requests, and a load for an agency without references after none.
C9_Witness ==
    \E i \in 1..Len(calls) :
        /\ cfr_references(calls[i].agency) = <<1, 1, 2, 3, 4, 5, 6>>
        /\ calls[i].titles.state = "done"
        /\ Len(calls[i].titles.requested) = 6

(* C10 *)

\* C10: within one bulk load the titles are split into batches of at most 5,
\* and a fetch of a later batch starts only when every fetch of the batches
\* before it has settled: the fetches in flight all belong to the batch
\* requested last, so never more than 5 are in flight.
C10_BatchesSequential ==
    \A i \in 1..Len(calls) :
        LET load     == calls[i].titles
            n        == Len(load.requested)
            lastFrom == IF n = 0 THEN 1 ELSE 5 * ((n - 1) \div 5) + 1
        IN  /\ \A k \in 1..Len(load.batches) : Len(load.batches[k]) \in 1..5
            /\ Cardinality(load.inFlight) <= 5
            /\ load.inFlight \subseteq
                   {load.requested[m] : m \in lastFrom..n}

\* C10 witness: the sixth title is in flight alone, the first five having
\* settled.
C10_Witness ==
    \E i \in 1..Len(calls) :
        /\ Len(calls[i].titles.requested) = 6
        /\ calls[i].titles.inFlight = {calls[i].titles.requested[6]}

-----------------------------------------------------------------------------
(* Vocabulary of the search claims, stated without the filter's code *)

\* A node matches a query: its display name (its name when it has no display
\* name) contains the query case-insensitively, or the decimal rendering of
\* one of its referenced titles contains it.
Matches(n, rawQuery) ==
    LET q     == toLowerCase(rawQuery)
        label == forest.label[n]
        shown == IF label.display_name = <<>> THEN label.name
                 ELSE label.display_name
    IN  \/ includes(toLowerCase(shown), q)
        \/ \E t \in Range(label.cfr_references) : includes(toString(t), q)

\* The nodes of that forest that are not below a node matching the query.
RECURSIVE ExposedNodes(_, _, _)
ExposedNodes(heap, list, rawQuery) ==
    UNION { {r} \cup (IF Matches(r, rawQuery) THEN {}
                      ELSE ExposedNodes(heap, heap[r], rawQuery)) :
            r \in Range(list) }

MatchesOrHasMatchingDescendant(heap, n, rawQuery) ==
    \/ Matches(n, rawQuery)
    \/ \E d \in DescendantsOf(heap, n) : Matches(d, rawQuery)

\* The forest made of `list` and `heap`, as a value: nodes, children, order.
RECURSIVE Snapshot(_, _)
Snapshot(heap, list) ==
    [i \in 1..Len(list) |-> <<list[i], Snapshot(heap, heap[list[i]])>>]

IsBlank(rawQuery) == \A i \in 1..Len(rawQuery) : rawQuery[i] = " "

ForestLoaded == agencies # <<>>

\* filteredAgencies holds the value computed for the current query.
Filtered == ForestLoaded /\ ~filteredDirty

-----------------------------------------------------------------------------
(* C4 *)

\* C4: the search filter never mutates the stored forest: every node keeps the
\* children sequence it had when the forest was loaded.
C4_ForestNotMutated ==
    ForestLoaded => \A n \in Nodes : children[n] = forest.children[n]

(* C5 *)

\* C5: for a blank query (empty or only whitespace) filteredAgencies is
\* structurally identical to the loaded forest, also after earlier queries.
C5_BlankQueryIsIdentity ==
    (Filtered /\ IsBlank(searchQuery)) =>
        Snapshot(children, filteredValue) = Snapshot(forest.children, forest.roots)

(* C6 *)

C8_FilterIdempotent ==
    ForestLoaded =>
        LET once  == filteredAgencies(children, agencies, searchQuery)
            twice == filteredAgencies(once.heap, once.res, searchQuery)
        IN  Snapshot(twice.heap, twice.res) = Snapshot(once.heap, once.res)

\* C8 witness: filteredAgencies has dropped a root and pruned a kept node, and
\* filtering its value again with the same query changes nothing.
C8_Witness ==
    /\ Filtered
    /\ filteredValue # <<>>
    /\ filteredValue # agencies
    /\ children # forest.children
    /\ LET twice == filteredAgencies(children, filteredValue, searchQuery)
       IN  twice.res = filteredValue /\ twice.heap = children

-----------------------------------------------------------------------------
(* C11 *)

\* C11: partial-failure tolerance of the bulk title load: failed fetches and
\* responses without a usable word count stop neither their batch nor the
\* later batches, so a finished load has requested every referenced title,
\* and titleData then holds exactly one entry, with the word count that was
\* served, for each title answered with a usable word count, and no entry
\* for any other title.
C11_PartialFailureTolerated ==
    \A i \in 1..Len(calls) :
        LET load == calls[i].titles
        IN  load.state = "done" =>
              /\ Range(load.requested) = Range(cfr_references(calls[i].agency))
              /\ TitlesIn(titleData) = {x.title : x \in load.answered}
              /\ Len(titleData) = Cardinality(load.answered)
              /\ \A k \in 1..Len(titleData) :
                    \E x \in load.answered :
                        /\ x.title = titleData[k].title
                        /\ x.response.word_count = titleData[k].wordCount

\* The load of titles 1..6 has finished, the fetch of title 5 failed or came
\* without a word count, the five others succeeded.
C11_Witness ==
    /\ Len(calls) = 1
    /\ calls[1].titles.state = "done"
    /\ Len(calls[1].titles.requested) = 6
    /\ {x.title : x \in calls[1].titles.answered} = {1, 2, 3, 4, 6}
    /\ TitlesIn(titleData) = {1, 2, 3, 4, 6}
    /\ Len(titleData) = 5

-----------------------------------------------------------------------------
(* C12 *)

\* C12: a single-title refresh of title t changes only t's entry: when its
\* response arrives with a usable word count, titleData keeps its length and
\* order, the entry of title t carries the fetched word count and date, and
\* every other entry is what it was; when the response carries no word
\* count, or the request fails, titleData is unchanged.
C12_RefreshChangesOnlyItsTitle ==
    [][\A k \in 1..Len(refreshes) :
         /\ \A response \in WordCountResponses :
               LoadTitleWordCountResponse(k, response) =>
                 /\ Len(titleData') = Len(titleData)
                 /\ \A n \in 1..Len(titleData) :
                       IF titleData[n].title = refreshes[k].title
                          /\ response.word_count # 0
                       THEN titleData'[n] =
                              [title       |-> refreshes[k].title,
                               wordCount   |-> response.word_count,
                               lastUpdated |-> IF response.date = "" THEN Now
                                               ELSE response.date]
                       ELSE titleData'[n] = titleData[n]
         /\ LoadTitleWordCountFail(k) => titleData' = titleData]_vars

\* After the bulk load of titles 40 and 42, a refresh of title 42 has
\* replaced the word count the bulk load stored for it, and the entry of
\* title 40 is the one the bulk load stored.
C12_Witness ==
    /\ Len(calls) = 1
    /\ calls[1].titles.state = "done"
    /\ \E k \in 1..Len(refreshes) :
          refreshes[k].title = 42 /\ refreshes[k].state = "done"
    /\ Len(titleData) = 2
    /\ titleData[1].title = 40
    /\ titleData[2].title = 42
    /\ \E x \in calls[1].titles.answered :
          x.title = 40 /\ x.response.word_count = titleData[1].wordCount
    /\ \E x \in calls[1].titles.answered :
          x.title = 42 /\ x.response.word_count # titleData[2].wordCount

-----------------------------------------------------------------------------
(* C13 *)

\* C13: for the history load and for the changes load of every selectAgency
\* call: when the response arrives the collection becomes the response body,
\* or the empty sequence when there is no body; when the request fails the
\* collection becomes the empty sequence; in every case the load settles
\* normally and the other loads of the call go on as they were.
C13_HistoryAndChangesOutcomes ==
    [][\A i \in 1..Len(calls) :
         /\ LoadAgencyHistoryOk(i, Some(HistoryOf(calls[i].agency))) =>
               selectedAgencyHistory' = HistoryOf(calls[i].agency)
         /\ LoadAgencyHistoryOk(i, None) => selectedAgencyHistory' = <<>>
         /\ LoadAgencyHistoryFail(i) => selectedAgencyHistory' = <<>>
         /\ LoadAgencyChangesOk(i, Some(ChangesOf(calls[i].agency))) =>
               selectedAgencyChanges' = ChangesOf(calls[i].agency)
         /\ LoadAgencyChangesOk(i, None) => selectedAgencyChanges' = <<>>
         /\ LoadAgencyChangesFail(i) => selectedAgencyChanges' = <<>>
         /\ (calls[i].history = "pending" /\ calls'[i].history = "done") =>
               /\ calls'[i].changes = calls[i].changes
               /\ calls'[i].titles = calls[i].titles
         /\ (calls[i].changes = "pending" /\ calls'[i].changes = "done") =>
               /\ calls'[i].history = calls[i].history
               /\ calls'[i].titles = calls[i].titles]_vars

\* The only selectAgency call so far has settled its history load with the
\* served history and its changes load with nothing: no body, or a failure.
C13_Witness ==
    /\ Len(calls) = 1
    /\ calls[1].history = "done"
    /\ calls[1].changes = "done"
    /\ selectedAgencyHistory = HistoryOf(calls[1].agency)
    /\ selectedAgencyChanges = <<>>

-----------------------------------------------------------------------------
(* C14 *)

\* C14: in every reachable state uniqueTitles is the strictly ascending
\* sequence of the distinct titles the selected agency references, and the
\* empty sequence when no agency is selected; for the references 40, 40, 42
\* it is 40, 42 and the analytics summary reports 3 references and 2 unique
\* titles.
C14_UniqueTitlesSortedDistinct ==
    /\ selectedAgency = Null => uniqueTitles = <<>>
    /\ selectedAgency # Null =>
          /\ \A m, n \in 1..Len(uniqueTitles) :
                m < n => uniqueTitles[m] < uniqueTitles[n]
          /\ Range(uniqueTitles) = Range(cfr_references(selectedAgency))
    /\ (selectedAgency # Null /\ cfr_references(selectedAgency) = <<40, 40, 42>>) =>
          /\ uniqueTitles = <<40, 42>>
          /\ selectedAgencyAnalytics[1].totalReferences = 3
          /\ selectedAgencyAnalytics[1].uniqueTitles = 2

\* The agency referencing 40, 40, 42 is selected.
C14_Witness ==
    /\ selectedAgency # Null
    /\ cfr_references(selectedAgency) = <<40, 40, 42>>
    /\ uniqueTitles = <<40, 42>>
    /\ selectedAgencyAnalytics # None

-----------------------------------------------------------------------------
(* C15 *)

\* Every load of call i that has not settled can settle now, with a response
\* or with a failure, whatever the other loads of the call have done.
CanSettle(i) ==
    /\ calls[i].history = "pending" =>
          /\ ENABLED LoadAgencyHistoryOk(i, Some(HistoryOf(calls[i].agency)))
          /\ ENABLED LoadAgencyHistoryFail(i)
    /\ calls[i].changes = "pending" =>
          /\ ENABLED LoadAgencyChangesOk(i, Some(ChangesOf(calls[i].agency)))
          /\ ENABLED LoadAgencyChangesFail(i)
    /\ calls[i].titles.state = "running" =>
          \A j \in 1..Len(calls[i].titles.batches[calls[i].titles.batch]) :
              calls[i].titles.batches[calls[i].titles.batch][j]
                  \in calls[i].titles.inFlight =>
                /\ \A response \in WordCountResponses :
                      ENABLED LoadTitleDataResponse(i, j, response)
                /\ ENABLED LoadTitleDataFail(i, j)

\* C15: the three loads of a selectAgency call are started by the call
\* itself, before any of them completes, and are independent: whatever the
\* other two have done, a load that has not settled can still succeed or
\* fail, a successful history or changes load stores its own result, a
\* finished title load stores the usable answers it received, and a step of
\* one load leaves the two other loads of the call as they were.
C15_LoadsStartedTogetherIndependent ==
    /\ [](\A i \in 1..Len(calls) : CanSettle(i))
    /\ [][/\ Len(calls') = Len(calls) + 1 =>
              LET call == calls'[Len(calls')]
              IN  /\ call.history = "pending"
                  /\ call.changes = "pending"
                  /\ IF cfr_references(call.agency) = <<>>
                     THEN call.titles.state = "done"
                     ELSE /\ call.titles.state = "running"
                          /\ call.titles.inFlight # {}
                          /\ call.titles.answered = {}
          /\ \A i \in 1..Len(calls) :
                /\ LoadAgencyHistoryOk(i, Some(HistoryOf(calls[i].agency))) =>
                      /\ selectedAgencyHistory' = HistoryOf(calls[i].agency)
                      /\ calls'[i] = [calls[i] EXCEPT !.history = "done"]
                      /\ UNCHANGED <<selectedAgencyChanges, titleData>>
                /\ LoadAgencyChangesOk(i, Some(ChangesOf(calls[i].agency))) =>
                      /\ selectedAgencyChanges' = ChangesOf(calls[i].agency)
                      /\ calls'[i] = [calls[i] EXCEPT !.changes = "done"]
                      /\ UNCHANGED <<selectedAgencyHistory, titleData>>
                /\ calls'[i].titles # calls[i].titles =>
                      /\ calls'[i].history = calls[i].history
                      /\ calls'[i].changes = calls[i].changes
                      /\ UNCHANGED <<selectedAgencyHistory, selectedAgencyChanges>>
                      /\ calls'[i].titles.state = "done" =>
                            TitlesIn(titleData') =
                                {x.title : x \in calls'[i].titles.answered}]_vars

\* A call has settled with a mixed outcome: the history load succeeded, the
\* changes load stored nothing, and the title load stored entries for some
\* but not all of the titles it requested.
C15_Witness ==
    /\ Len(calls) = 1
    /\ CallSettled(calls[1])
    /\ selectedAgencyHistory = HistoryOf(calls[1].agency)
    /\ selectedAgencyChanges = <<>>
    /\ titleData # <<>>
    /\ Len(titleData) < Len(calls[1].titles.requested)

-----------------------------------------------------------------------------
(* C16 *)

\* C16: in every reachable state, under any interleaving of selectAgency,
\* selectTitle and fetch completions, titleData holds at most one entry per
\* title and every entry has a non-zero wordCount.
C16_TitleDataWellFormed ==
    /\ \A m, n \in 1..Len(titleData) :
          titleData[m].title = titleData[n].title => m = n
    /\ \A n \in 1..Len(titleData) : titleData[n].wordCount # 0

\* titleData holds the entry of a title its agency references twice, stored
\* by a bulk load and then refreshed by a selectTitle call with another word
\* count.
C16_Witness ==
    /\ \E i \in 1..Len(calls) :
          /\ calls[i].titles.state = "done"
          /\ Len(cfr_references(calls[i].agency)) > 1
          /\ \E x \in calls[i].titles.answered :
                /\ x.title \in TitlesIn(titleData)
                /\ \A n \in 1..Len(titleData) :
                      titleData[n].wordCount # x.response.word_count
    /\ \E k \in 1..Len(refreshes) :
          refreshes[k].state = "done" /\ refreshes[k].title \in TitlesIn(titleData)

====
